---- MODULE Spec2Model ----
(***************************************************************************)
(* Snow report dashboard (src/dashboard.py): the data helpers             *)
(* get_display_name, load_latest_data, load_historical_data and            *)
(* prepare_chart_data, and the marker label of create_map, as a state      *)
(* machine over one page render.                                           *)
(*                                                                         *)
(* Snow amounts are held in thousandths of an inch (8000 is 8.0"), dates   *)
(* as day numbers (days_from_civil), timestamps as the calendar day and    *)
(* hour they are written with plus the zone they carry.                    *)
(***************************************************************************)
EXTENDS Integers, Sequences, FiniteSets, TLC

VARIABLES
    today,      \* datetime.now(LOCAL_TZ).date(), as [y, m, d]
    stampKind,  \* how the feed writes its last_updated timestamps: "naive" (no
                \* zone) or "utc" (offset +00:00); one feed writes one format
    db,         \* the store handle of initialize_firebase: "none" or "client"
    store,      \* the documents of the latest snapshot date, in stream order
    pc,         \* "feed": documents are being written; "done": load_latest_data
                \* returned; "hist": load_historical_data returned; "chart":
                \* prepare_chart_data was called
    ret,        \* the return path taken: "none" (not yet), "nodb", "normal", "except"
    df,         \* the table load_latest_data returned
    lookup,     \* the calls of get_display_name made so far, each with its result
    coll,       \* the documents of snow_reports with their date field, in
                \* stream order (renders that draw the chart)
    df_hist,    \* the table load_historical_data returned
    histRet,    \* its return path: "none" (not yet), "nodb", "empty", "normal", "except"
    cdf,        \* the table prepare_chart_data returned
    chartRet,   \* its outcome: "none" (not yet), "empty", "ok", "raise"
    clock,      \* seconds from the midnight that ends the first day (negative
                \* before it)
    cache,      \* the st.cache_data entries of load_latest_data and
                \* load_historical_data
    last_clicked,  \* st.session_state["last_clicked"]
    clicked,    \* map_output["last_object_clicked_tooltip"] ("": none)
    runs        \* the map-click handler's past runs, each with what the map
                \* reported and how the run ended

vars == <<today, stampKind, db, store, pc, ret, df,
          lookup, coll, df_hist, histRet, cdf, chartRet,
          clock, cache, last_clicked, clicked, runs>>

\* What the result cache and the map-click handler hold.
uiVars == <<clock, cache, last_clicked, clicked, runs>>

\* What the chart's helpers hold.
chartVars == <<coll, df_hist, histRet, cdf, chartRet>>

\* ------------------------------------------------------------------ bounds

\* Raw documents of the latest snapshot date in one fetch.
MaxReports == 2

\* Calls of get_display_name in one run.
MaxLookups == 2

\* Documents of snow_reports in a render that draws the chart.
MaxRecords == 2

\* Steps of five minutes the clock makes.
MaxTicks == 4

\* Runs of the map-click handler.
MaxRuns == 3

\* ------------------------------------------------------------- constants

\* df["snow_24h_display"] >= 6, in thousandths of an inch.
PowderThreshold == 6000

\* America/Denver standard time is UTC-7.
DenverUtcOffsetHours == 7

\* load_historical_data(db, days=5): the number of dates queried.
HistoryDays == 5

\* prepare_chart_data: the days today - i for i in range(4, -1, -1).
ChartDays == 5

\* @st.cache_data(ttl=600), in seconds.
CacheTtl == 600

\* ------------------------------------------------------------ calendar

\* datetime.date as a day number (the proleptic Gregorian calendar).
DayNumber(y, m, d) ==
    LET yy  == IF m <= 2 THEN y - 1 ELSE y
        era == yy \div 400
        yoe == yy - era * 400
        mp  == IF m > 2 THEN m - 3 ELSE m + 9
        doy == (153 * mp + 2) \div 5 + d - 1
        doe == yoe * 365 + yoe \div 4 - yoe \div 100 + doy
    IN  era * 146097 + doe - 719468

TodayNumber == DayNumber(today.y, today.m, today.d)

\* October 1 of the current year if the current month is October or later,
\* else October 1 of the previous year (section 4.1 of the specification).
SeasonStart ==
    DayNumber(IF today.m >= 10 THEN today.y ELSE today.y - 1, 10, 1)

\* The same calendar day one year before today.
OneYearAgo == DayNumber(today.y - 1, today.m, today.d)

\* ------------------------------------------------------------ raw values

\* A raw numeric field of a document: absent, a number, a string holding a
\* number, or a string that is no number.
Absent == [k |-> "absent", v |-> 0]
Num(n) == [k |-> "num", v |-> n]
NumStr(n) == [k |-> "numstr", v |-> n]
BadStr == [k |-> "badstr", v |-> 0]

\* A raw last_updated: absent, the text "N/A", text that is no timestamp, or
\* a timestamp written as day and hour, either without a zone ("naive") or
\* with the offset +00:00 ("utc").  "No Report" is the text the default tables
\* carry.
NoStamp == [k |-> "absent", day |-> 0, hour |-> 0, off |-> "none"]
NAText == [k |-> "na", day |-> 0, hour |-> 0, off |-> "none"]
NoReportText == [k |-> "noreport", day |-> 0, hour |-> 0, off |-> "none"]
Garbage == [k |-> "garbage", day |-> 0, hour |-> 0, off |-> "none"]
Stamp(day, hour, off) == [k |-> "stamp", day |-> day, hour |-> hour, off |-> off]

\* pd.NaT
NaT == [null |-> TRUE, day |-> 0, hour |-> 0, tz |-> "none"]

\* ------------------------------------------------------- static tables

\* RESORTS_DATA, its keys in insertion order.
RESORTS_DATA ==
    << "Snowbowl", "Discovery", "Lookout Pass", "Big Mountain", "Lost Trail",
       "Teton Pass", "Showdown", "Blacktail", "Bridger Bowl", "Big Sky",
       "Red Lodge Mountain", "Maverick", "Great Divide", "Bear Paw",
       "Silver Mountain", "Turner Mountain", "Schweitzer" >>

name_map ==
    [ LookoutPass |-> "Lookout Pass", BigMountain |-> "Big Mountain",
      LostTrail |-> "Lost Trail", TetonPass |-> "Teton Pass",
      Blacktail |-> "Blacktail", Snowbowl |-> "Snowbowl",
      Discovery |-> "Discovery", Showdown |-> "Showdown",
      BridgerBowl |-> "Bridger Bowl", BigSky |-> "Big Sky",
      RedLodge |-> "Red Lodge Mountain",
      RedLodgeMountain |-> "Red Lodge Mountain",
      GreatDivide |-> "Great Divide", BearPaw |-> "Bear Paw",
      SilverMountain |-> "Silver Mountain", Schweitzer |-> "Schweitzer",
      TurnerMountain |-> "Turner Mountain" ]

\* name_map.get(resort_name, resort_name)
get_display_name_no_default(resort_name) ==
    IF resort_name \in DOMAIN name_map THEN name_map[resort_name]
    ELSE ""
get_display_name(resort_name) ==
    IF resort_name \in DOMAIN name_map THEN name_map[resort_name]
    ELSE resort_name

\* ------------------------------------------------------ load_latest_data

NumCols ==
    { "snow_24h_summit", "snow_24h_base", "base_depth", "summit_depth",
      "snow_overnight", "temp_base", "temp_summit", "wind_speed" }

\* pd.to_numeric(col, errors="coerce").fillna(0): a number or a string that
\* holds one is kept, anything else (NaN of a missing cell, other text) is 0.
ToNumeric(raw) == IF raw.k \in {"num", "numstr"} THEN raw.v ELSE 0

\* col.fillna("N/A").astype(str) of last_updated: a missing cell becomes the
\* text "N/A", any other value its own text.
StrColKeepMissing(lu) == lu
StrColGarbageAsMissing(lu) ==
    IF lu.k \in {"absent", "garbage"} THEN NAText ELSE lu
StrCol(lu) == IF lu.k = "absent" THEN NAText ELSE lu

\* pd.to_datetime(text, errors="coerce"), then x.replace(tzinfo=LOCAL_TZ) for
\* a naive value; a value that carries an offset is left in its own zone.
ParseLastUpdated(text) ==
    IF text.k = "stamp"
    THEN [null |-> FALSE, day |-> text.day, hour |-> text.hour,
          tz |-> IF text.off = "naive" THEN "denver" ELSE "utc"]
    ELSE NaT

\* x.astimezone(LOCAL_TZ).date(): the calendar day in America/Denver of the
\* instant a timestamp denotes.
LocalDay(dt) ==
    IF dt.tz = "utc" /\ dt.hour < DenverUtcOffsetHours THEN dt.day - 1
    ELSE dt.day

\* mask_not_today: last_updated_dt.dt.date != today, the date being that of
\* the value in the zone it carries (NaT is never equal).
MaskBeforeToday(dt, todayNo) == dt.null \/ dt.day < todayNo
MaskNaTIsFresh(dt, todayNo) == ~dt.null /\ dt.day # todayNo
MaskNotToday(dt, todayNo) == dt.null \/ dt.day # todayNo

\* The columns the freshness rule zeroes.
FreshnessColsWithDepths ==
    { "snow_24h_summit", "snow_overnight", "snow_24h_base",
      "base_depth", "summit_depth" }
FreshnessCols == { "snow_24h_summit", "snow_overnight", "snow_24h_base" }

\* df.loc[mask_not_today, [snow_24h_summit, snow_overnight, snow_24h_base]] = 0
AfterFreshness(col, v, dt, todayNo) ==
    IF col \in FreshnessCols /\ MaskNotToday(dt, todayNo) THEN 0 ELSE v

Min2(a, b) == IF a <= b THEN a ELSE b
Max2(a, b) == IF a >= b THEN a ELSE b

\* df[["snow_24h_summit", "snow_24h_base"]].max(axis=1)
DisplaySummitOnly(summit, base) == summit
DisplaySnow(summit, base) == Max2(summit, base)

\* df["snow_24h_display"] >= 6
IsPowderStrict(display) == display > PowderThreshold
IsPowder(display) == display >= PowderThreshold

\* df["last_updated"] != "N/A"
HasReportParsed(text) == text.k = "stamp"
HasReport(text) == text # NAText

\* The cells of one merged row, before coercion: those of the matched
\* document, or all missing (NaN) when the resort matched none.
NoDoc ==
    [ resort |-> "", last_updated |-> NoStamp,
      snow_24h_summit |-> Absent, snow_24h_base |-> Absent,
      base_depth |-> Absent, summit_depth |-> Absent,
      snow_overnight |-> Absent, temp_base |-> Absent,
      temp_summit |-> Absent, wind_speed |-> Absent ]

\* One row of df_final up to the sort: coercion, freshness rule, display
\* amount, powder flag, report flag.  src is the index of the document the
\* row was merged from (0: none).
FinalRow(name, src, doc, todayNo) ==
    LET text    == StrCol(doc.last_updated)
        dt      == ParseLastUpdated(text)
        summit  == AfterFreshness("snow_24h_summit",
                                  ToNumeric(doc.snow_24h_summit), dt, todayNo)
        base    == AfterFreshness("snow_24h_base",
                                  ToNumeric(doc.snow_24h_base), dt, todayNo)
        display == DisplaySnow(summit, base)
    IN  [ display_name     |-> name,
          src              |-> src,
          snow_24h_summit  |-> summit,
          snow_24h_base    |-> base,
          base_depth       |-> AfterFreshness("base_depth",
                                  ToNumeric(doc.base_depth), dt, todayNo),
          summit_depth     |-> AfterFreshness("summit_depth",
                                  ToNumeric(doc.summit_depth), dt, todayNo),
          snow_overnight   |-> AfterFreshness("snow_overnight",
                                  ToNumeric(doc.snow_overnight), dt, todayNo),
          temp_base        |-> ToNumeric(doc.temp_base),
          temp_summit      |-> ToNumeric(doc.temp_summit),
          wind_speed       |-> ToNumeric(doc.wind_speed),
          last_updated     |-> text,
          last_updated_dt  |-> dt,
          snow_24h_display |-> display,
          is_powder        |-> IsPowder(display),
          has_report       |-> HasReport(text) ]

\* The indices of the documents whose display name is name, in stream order.
RECURSIVE Matches(_, _, _)
Matches(rows, name, i) ==
    IF i > Len(rows) THEN << >>
    ELSE (IF get_display_name(rows[i].resort) = name THEN << i >> ELSE << >>)
         \o Matches(rows, name, i + 1)

\* pd.merge(df_master, df_fb, on="display_name", how="left"): the master
\* rows in order, each once per matching document, or once with missing
\* cells when it matches none.
MergeInner(rows, name) == Matches(rows, name, 1)
MergeLeft(rows, name) ==
    LET ms == Matches(rows, name, 1)
    IN  IF ms = << >> THEN << 0 >> ELSE ms

RECURSIVE Merged(_, _)
Merged(rows, k) ==
    IF k > Len(RESORTS_DATA) THEN << >>
    ELSE LET name == RESORTS_DATA[k]
             ms   == MergeLeft(rows, name)
         IN  [ j \in 1..Len(ms) |-> [display_name |-> name, src |-> ms[j]] ]
             \o Merged(rows, k + 1)

\* "resort" in df_fb.columns: some document carries the field.
HasResortColumn(rows) == \E i \in 1..Len(rows) : rows[i].resort # ""

\* The sort keys of sort_values([has_report, last_updated_date,
\* snow_24h_display], ascending=[False, False, False]): a missing date sorts
\* last (na_position="last").
SortBeforeNoDate(a, b) ==
    \/ a.has_report /\ ~b.has_report
    \/ /\ a.has_report = b.has_report
       /\ a.snow_24h_display > b.snow_24h_display
SortBefore(a, b) ==
    \/ a.has_report /\ ~b.has_report
    \/ /\ a.has_report = b.has_report
       /\ \/ ~a.last_updated_dt.null /\ b.last_updated_dt.null
          \/ /\ ~a.last_updated_dt.null /\ ~b.last_updated_dt.null
             /\ a.last_updated_dt.day > b.last_updated_dt.day
          \/ /\ a.last_updated_dt.null = b.last_updated_dt.null
             /\ a.last_updated_dt.day = b.last_updated_dt.day
             /\ a.snow_24h_display > b.snow_24h_display

\* The number of leading rows of sorted that x does not sort before: x goes
\* right after them, so rows with equal keys keep their order (the sort is
\* stable).
RECURSIVE KeepBeforeTiesFirst(_, _, _)
KeepBeforeTiesFirst(sorted, x, i) ==
    IF i = 0 THEN 0
    ELSE IF SortBefore(sorted[i], x) THEN i
         ELSE KeepBeforeTiesFirst(sorted, x, i - 1)
RECURSIVE KeepBefore(_, _, _)
KeepBefore(sorted, x, i) ==
    IF i = 0 THEN 0
    ELSE IF ~SortBefore(x, sorted[i]) THEN i
         ELSE KeepBefore(sorted, x, i - 1)

InsertRow(sorted, x) ==
    LET pos == KeepBefore(sorted, x, Len(sorted))
    IN  SubSeq(sorted, 1, pos) \o << x >> \o SubSeq(sorted, pos + 1, Len(sorted))

RECURSIVE SortValues(_, _)
SortValues(rows, n) ==
    IF n = 0 THEN << >>
    ELSE InsertRow(SortValues(rows, n - 1), rows[n])

\* The store-unavailable return (_db is None).
NoDbTableFlagFromText ==
    [ k \in 1..Len(RESORTS_DATA) |->
        [ display_name     |-> RESORTS_DATA[k],
          src              |-> 0,
          snow_24h_summit  |-> 0,
          snow_24h_base    |-> 0,
          base_depth       |-> 0,
          summit_depth     |-> 0,
          snow_overnight   |-> 0,
          temp_base        |-> 0,
          temp_summit      |-> 0,
          wind_speed       |-> 0,
          last_updated     |-> NoReportText,
          last_updated_dt  |-> NaT,
          snow_24h_display |-> 0,
          is_powder        |-> FALSE,
          has_report       |-> HasReport(NoReportText) ] ]
NoDbTable ==
    [ k \in 1..Len(RESORTS_DATA) |->
        [ display_name     |-> RESORTS_DATA[k],
          src              |-> 0,
          snow_24h_summit  |-> 0,
          snow_24h_base    |-> 0,
          base_depth       |-> 0,
          summit_depth     |-> 0,
          snow_overnight   |-> 0,
          temp_base        |-> 0,
          temp_summit      |-> 0,
          wind_speed       |-> 0,
          last_updated     |-> NoReportText,
          last_updated_dt  |-> NaT,
          snow_24h_display |-> 0,
          is_powder        |-> FALSE,
          has_report       |-> FALSE ] ]

\* The except return: df_master with the four columns the handler adds.
ExceptTable ==
    [ k \in 1..Len(RESORTS_DATA) |->
        [ display_name     |-> RESORTS_DATA[k],
          src              |-> 0,
          snow_24h_display |-> 0,
          is_powder        |-> FALSE,
          last_updated     |-> NoReportText,
          has_report       |-> FALSE ] ]

\* The normal return of load_latest_data for the fetched documents.
NormalTable(rows, todayNo) ==
    LET merged == IF rows # << >> /\ HasResortColumn(rows)
                  THEN Merged(rows, 1)
                  ELSE [ k \in 1..Len(RESORTS_DATA) |->
                           [display_name |-> RESORTS_DATA[k], src |-> 0] ]
        final  == [ j \in 1..Len(merged) |->
                      FinalRow(merged[j].display_name, merged[j].src,
                               IF merged[j].src = 0 THEN NoDoc
                               ELSE rows[merged[j].src],
                               todayNo) ]
    IN  SortValues(final, Len(final))

\* create_map: a resort's marker shows "n/a" when the row has no data
\* (last_updated is "N/A"), else the display amount.
MarkerLabel(row) ==
    IF row.last_updated = NAText THEN [na |-> TRUE, amount |-> 0]
    ELSE [na |-> FALSE, amount |-> row.snow_24h_display]

\* create_map styles a marker as powder when the row has data and its
\* is_powder is set.
MarkerPowder(row) ==
    IF row.last_updated = NAText THEN FALSE ELSE row.is_powder

\* create_map reads row['snow_24h_summit'] of every row it draws: a table
\* without that column raises KeyError.
CreateMapRaises(table) ==
    \E j \in 1..Len(table) : "snow_24h_summit" \notin DOMAIN table[j]

\* --------------------------------------------------- load_historical_data

\* The documents load_latest_data fetches: those of the latest date any
\* document carries, in stream order.
LatestSnapshot(docs) ==
    IF docs = << >> THEN << >>
    ELSE LET latest == CHOOSE d \in { docs[i].date : i \in 1..Len(docs) } :
                          \A i \in 1..Len(docs) : docs[i].date <= d
             IsLatest(doc) == doc.date = latest
         IN  SelectSeq(docs, IsLatest)

\* The indices of the documents the query date == d streams, in order.
RECURSIVE DatedDocs(_, _, _)
DatedDocs(docs, d, i) ==
    IF i > Len(docs) THEN << >>
    ELSE (IF docs[i].date = d THEN << i >> ELSE << >>)
         \o DatedDocs(docs, d, i + 1)

\* all_rows: for each date today - i, i in range(days), the documents of
\* that date, each tagged with the date as query_date.
RECURSIVE AllRows(_, _, _)
AllRows(docs, todayNo, i) ==
    IF i >= HistoryDays THEN << >>
    ELSE LET d  == todayNo - i
             ix == DatedDocs(docs, d, 1)
         IN  [ j \in 1..Len(ix) |-> [src |-> ix[j], query_date |-> d] ]
             \o AllRows(docs, todayNo, i + 1)

\* A cell of pd.DataFrame(all_rows): the document's value, NaN when the
\* document lacks the field that another row has, and no cell at all when no
\* row has the field (the column does not exist).
NaN == [k |-> "nan", v |-> 0]
NoColumn == [k |-> "nocol", v |-> 0]
HistCell(docs, rows, col, j) ==
    LET raw == docs[rows[j].src][col]
    IN  IF raw.k # "absent" THEN raw
        ELSE IF \E i \in 1..Len(rows) : docs[rows[i].src][col].k # "absent"
             THEN NaN
             ELSE NoColumn

\* pd.to_datetime(last_updated, errors="coerce"), then replace(tzinfo=
\* LOCAL_TZ) for a naive value and astimezone(LOCAL_TZ) for one that carries
\* an offset.
HistLastUpdatedDt(lu) ==
    IF lu.k # "stamp" THEN NaT
    ELSE IF lu.off = "naive"
         THEN [null |-> FALSE, day |-> lu.day, hour |-> lu.hour, tz |-> "denver"]
         ELSE [ null |-> FALSE,
                day  |-> LocalDay([null |-> FALSE, day |-> lu.day,
                                   hour |-> lu.hour, tz |-> "utc"]),
                hour |-> (lu.hour + 24 - DenverUtcOffsetHours) % 24,
                tz   |-> "denver" ]

\* load_historical_data(_db, days=5) with a store handle whose queries
\* succeed: empty when no document is in the window, empty (the except
\* return) when df["last_updated"] raises KeyError because no row has the
\* field, else one row per document of the window.  src is the index of the
\* row's document in the collection.
load_historical_data(docs, todayNo) ==
    LET rows == AllRows(docs, todayNo, 0)
    IN  IF rows = << >> THEN [ret |-> "empty", table |-> << >>]
        ELSE IF \A j \in 1..Len(rows) :
                    docs[rows[j].src].last_updated.k = "absent"
        THEN [ret |-> "except", table |-> << >>]
        ELSE [ ret   |-> "normal",
               table |->
                 [ j \in 1..Len(rows) |->
                     LET doc == docs[rows[j].src]
                     IN  [ resort          |-> doc.resort,
                           src             |-> rows[j].src,
                           query_date      |-> rows[j].query_date,
                           last_updated    |-> doc.last_updated,
                           last_updated_dt |-> HistLastUpdatedDt(doc.last_updated),
                           snow_24h_summit |->
                               HistCell(docs, rows, "snow_24h_summit", j),
                           snow_24h_base   |->
                               HistCell(docs, rows, "snow_24h_base", j) ] ] ]

\* ----------------------------------------------------- prepare_chart_data

\* df_current["display_name"].unique().tolist(): the names in order of first
\* appearance.
RECURSIVE UniqueNames(_, _)
UniqueNames(rows, j) ==
    IF j > Len(rows) THEN << >>
    ELSE (IF \E i \in 1..(j - 1) : rows[i].display_name = rows[j].display_name
          THEN << >> ELSE << rows[j].display_name >>)
         \o UniqueNames(rows, j + 1)

\* row.iloc[0] of subset[subset["query_date"].dt.date == d]: the index of the
\* first record of the resort queried under day d (0: none).
FirstRecord(hist, name, d) ==
    LET ms == { i \in 1..Len(hist) :
                  /\ get_display_name(hist[i].resort) = name
                  /\ hist[i].query_date = d }
    IN  IF ms = {} THEN 0 ELSE CHOOSE i \in ms : \A k \in ms : i <= k

\* float(row.get(col, 0) or 0): 0 for a column that does not exist, NaN for
\* a missing cell (NaN is truthy), the number a number or numeric text holds,
\* ValueError for other text.
RawFloat(cell) ==
    CASE cell.k \in {"num", "numstr"} ->
             [raises |-> FALSE, nan |-> FALSE, v |-> cell.v]
      [] cell.k = "nan"   -> [raises |-> FALSE, nan |-> TRUE, v |-> 0]
      [] cell.k = "nocol" -> [raises |-> FALSE, nan |-> FALSE, v |-> 0]
      [] OTHER            -> [raises |-> TRUE, nan |-> FALSE, v |-> 0]

\* Python's max(a, b): b if b > a, else a; a comparison with NaN is False.
PyMax(a, b) == IF ~a.nan /\ ~b.nan /\ b.v > a.v THEN b ELSE a

\* One pass of the inner loop: the point of resort name for day d.  raises
\* tells that the pass raised (float() of text that is no number).  The
\* .date() of NaT is NaT, which equals no day.
ChartPoint(hist, name, d) ==
    LET i == FirstRecord(hist, name, d)
    IN  IF i = 0
        THEN [display_name |-> name, date |-> d, snow |-> 0, raises |-> FALSE]
        ELSE LET raw_summit == RawFloat(hist[i].snow_24h_summit)
                 raw_base   == RawFloat(hist[i].snow_24h_base)
                 raw        == PyMax(raw_summit, raw_base)
                 dt         == hist[i].last_updated_dt
             IN  IF raw_summit.raises \/ raw_base.raises
                 THEN [display_name |-> name, date |-> d, snow |-> 0,
                       raises |-> TRUE]
                 ELSE [display_name |-> name, date |-> d,
                       snow |-> IF /\ ~raw.nan /\ raw.v > 0
                                   /\ ~dt.null /\ dt.day = d
                                THEN raw.v ELSE 0,
                       raises |-> FALSE]

\* rows: for each resort, for each day oldest to newest, one point.
ChartRows(hist, names, todayNo) ==
    [ k \in 1..(Len(names) * ChartDays) |->
        ChartPoint(hist, names[((k - 1) \div ChartDays) + 1],
                   todayNo - (ChartDays - 1) + ((k - 1) % ChartDays)) ]

\* groupby("display_name")["snow"].sum(): the sum of the snow values of the
\* rows lo..hi, the points of one resort.
RECURSIVE SumSnow(_, _, _)
SumSnow(rows, lo, hi) ==
    IF lo > hi THEN 0 ELSE rows[lo].snow + SumSnow(rows, lo + 1, hi)

NewestDaySnow(rows, n) == rows[n * ChartDays].snow
TotalSnow(rows, n) == SumSnow(rows, (n - 1) * ChartDays + 1, n * ChartDays)

\* prepare_chart_data(df_hist, df_current): the returned table and how the
\* call ended.
prepare_chart_data(hist, current, todayNo) ==
    IF hist = << >> \/ current = << >>
    THEN [ret |-> "empty", table |-> << >>]
    ELSE LET names == UniqueNames(current, 1)
             rows  == ChartRows(hist, names, todayNo)
         IN  IF \E k \in 1..Len(rows) : rows[k].raises
             THEN [ret |-> "raise", table |-> << >>]
             ELSE [ ret   |-> "ok",
                    table |->
                      [ k \in 1..Len(rows) |->
                          [ display_name |-> rows[k].display_name,
                            date         |-> rows[k].date,
                            snow         |-> rows[k].snow,
                            total_snow   |->
                                TotalSnow(rows, ((k - 1) \div ChartDays) + 1) ] ] ]

\* df_hist["temp_disp"] = df_hist["resort"].apply(get_display_name): the
\* column prepare_chart_data adds to the table it was given.
WithTempDisp(hist) ==
    [ j \in 1..Len(hist) |->
        [ resort          |-> hist[j].resort,
          src             |-> hist[j].src,
          query_date      |-> hist[j].query_date,
          last_updated    |-> hist[j].last_updated,
          last_updated_dt |-> hist[j].last_updated_dt,
          snow_24h_summit |-> hist[j].snow_24h_summit,
          snow_24h_base   |-> hist[j].snow_24h_base,
          temp_disp       |-> get_display_name(hist[j].resort) ] ]

\* -------------------------------------------------------------- inputs

\* The render's current local date.
Todays == { [y |-> 2026, m |-> 12, d |-> 5] }

\* Raw identifiers of resorts RESORTS_DATA holds: one the lookup table maps,
\* and two it maps to the same display name.
ResortIds == { "BridgerBowl", "RedLodge", "RedLodgeMountain" }

\* A raw identifier the lookup table does not know, of a resort RESORTS_DATA
\* does not hold.
UnknownResortId == "BogusBasin"

\* The last_updated values a document may carry, for a feed that writes its
\* timestamps as off: yesterday 23:00, today 00:00, tomorrow 00:00 and, in a
\* feed of naive timestamps, also none, text that is no timestamp, and 06:00
\* one year ago.
LastUpdatedValues(todayNo, yearAgo, off) ==
    { Stamp(todayNo - 1, 23, off),
      Stamp(todayNo, 0, off),
      Stamp(todayNo + 1, 0, off) }
    \cup (IF off = "naive"
          THEN { NoStamp, Garbage, Stamp(yearAgo, 6, off) }
          ELSE { })

\* The numeric cells a document may carry: 5.999" at the summit and nothing
\* at the base, or 5" at the summit and the text "6.0" at the base.
Profiles ==
    { [ snow_24h_summit |-> Num(5999), snow_24h_base |-> Absent,
        base_depth |-> Num(40000), summit_depth |-> Num(60000),
        snow_overnight |-> Num(3000), temp_base |-> Num(-5000),
        temp_summit |-> Num(-12000), wind_speed |-> Num(15000) ],
      [ snow_24h_summit |-> Num(5000), snow_24h_base |-> NumStr(6000),
        base_depth |-> NumStr(35000), summit_depth |-> BadStr,
        snow_overnight |-> Num(1000), temp_base |-> BadStr,
        temp_summit |-> Absent, wind_speed |-> NumStr(8000) ] }

Doc(r, lu, p) ==
    [ resort |-> r, last_updated |-> lu,
      snow_24h_summit |-> p.snow_24h_summit,
      snow_24h_base |-> p.snow_24h_base,
      base_depth |-> p.base_depth, summit_depth |-> p.summit_depth,
      snow_overnight |-> p.snow_overnight, temp_base |-> p.temp_base,
      temp_summit |-> p.temp_summit, wind_speed |-> p.wind_speed ]

\* The documents a fetch may return: any known resort with any last_updated
\* and numeric cells, and a document of the unknown resort, reported today
\* (its cells reach the table only if the merge wrongly takes it).
Docs(todayNo, yearAgo, off) ==
    { Doc(r, lu, p) :
        r \in ResortIds, lu \in LastUpdatedValues(todayNo, yearAgo, off),
        p \in Profiles }
    \cup { Doc(UnknownResortId, Stamp(todayNo, 0, off), p) : p \in Profiles }

\* An entry of the result cache: whether it is filled, the clock and the
\* local date of the call that filled it, the documents that call fetched,
\* and the value it returned.
NoEntry ==
    [ filled |-> FALSE, at |-> 0, day |-> 0, docs |-> << >>,
      ret |-> "none", table |-> << >> ]

\* An entry is served while it is younger than the ttl.
Fresh(entry, now) == entry.filled /\ now < entry.at + CacheTtl

\* st.session_state["last_clicked"]: not set, None, or a resort name.
NotInSession == [k |-> "absent", name |-> ""]
NoneValue == [k |-> "none", name |-> ""]
NameValue(n) == [k |-> "name", name |-> n]

\* ------------------------------------------------------------- actions

Init ==
    /\ today \in Todays
    /\ stampKind \in {"naive", "utc"}
    /\ db \in {"none", "client"}
    /\ store = << >>
    /\ pc = "feed"
    /\ ret = "none"
    /\ df = << >>
    /\ lookup = << >>
    /\ coll = << >>
    /\ df_hist = << >>
    /\ histRet = "none"
    /\ cdf = << >>
    /\ chartRet = "none"
    /\ clock = -CacheTtl
    /\ cache = [latest |-> NoEntry, hist |-> NoEntry]
    /\ last_clicked = NotInSession
    /\ clicked = ""
    /\ runs = << >>

\* The scraper writes one more document under the latest snapshot date (the
\* documents are what the handle's queries return: without a handle nothing
\* is ever read).
AddReport ==
    /\ pc = "feed"
    /\ db = "client"
    /\ Len(store) < MaxReports
    /\ \E doc \in Docs(TodayNumber, OneYearAgo, stampKind) :
          store' = Append(store, doc)
    /\ UNCHANGED <<today, stampKind, db, pc, ret, df, lookup, chartVars, uiVars>>

\* load_latest_data(_db) with no store handle.
LoadNoDb ==
    /\ pc = "feed"
    /\ db = "none"
    /\ df' = NoDbTable
    /\ ret' = "nodb"
    /\ pc' = "done"
    /\ UNCHANGED <<today, stampKind, db, store, lookup, chartVars, uiVars>>

\* load_latest_data(_db): the queries succeed.
LoadNormal ==
    /\ pc = "feed"
    /\ db = "client"
    /\ df' = NormalTable(store, TodayNumber)
    /\ ret' = "normal"
    /\ pc' = "done"
    /\ UNCHANGED <<today, stampKind, db, store, lookup, chartVars, uiVars>>

\* load_latest_data(_db): a store query raises.
LoadExcept ==
    /\ pc = "feed"
    /\ db = "client"
    /\ df' = ExceptTable
    /\ ret' = "except"
    /\ pc' = "done"
    /\ UNCHANGED <<today, stampKind, db, store, lookup, chartVars, uiVars>>

Next == AddReport \/ LoadNoDb \/ LoadNormal \/ LoadExcept

Spec == Init /\ [][Next]_vars

\* ------------------------------------------- get_display_name on its own

\* The identifiers get_display_name is called with: every key of the lookup
\* table, a RESORTS_DATA name the table has no key for, an identifier of no
\* known resort, a display name, a key in other letter case, the empty text.
LookupInputs ==
    DOMAIN name_map
        \cup { "Maverick", UnknownResortId, "Bridger Bowl", "bridgerbowl", "" }

\* One call get_display_name(resort_name).
Lookup ==
    /\ Len(lookup) < MaxLookups
    /\ \E resort_name \in LookupInputs :
          lookup' = Append(lookup,
                           [ resort_name |-> resort_name,
                             result |-> get_display_name(resort_name) ])
    /\ UNCHANGED <<today, stampKind, db, store, pc, ret, df, chartVars, uiVars>>

NextNames == Lookup

SpecNames == Init /\ [][NextNames]_vars

\* ------------------------------------------ a render that draws the chart

\* The 24h cells a document of the collection may carry: both, or only one
\* of the two.
ChartProfiles ==
    { [snow_24h_summit |-> Num(8000), snow_24h_base |-> Num(5000)],
      [snow_24h_summit |-> Absent, snow_24h_base |-> Num(6000)],
      [snow_24h_summit |-> Num(2000), snow_24h_base |-> Absent] }

\* A document of snow_reports: its date field, and the fields the chart and
\* the current table read.
Record(r, date, lu, p) ==
    [ resort |-> r, date |-> date, last_updated |-> lu,
      snow_24h_summit |-> p.snow_24h_summit,
      snow_24h_base |-> p.snow_24h_base,
      base_depth |-> Absent, summit_depth |-> Absent,
      snow_overnight |-> Absent, temp_base |-> Absent,
      temp_summit |-> Absent, wind_speed |-> Absent ]

\* 06:00 local time of a day, as the feed writes it.
MorningStamp(date, off) ==
    Stamp(date, IF off = "naive" THEN 6 ELSE 6 + DenverUtcOffsetHours, off)

\* The last_updated values a document dated date may carry: 06:00 local
\* time of that day, an hour of the local day before, and, in a feed of naive
\* timestamps, none and text that is no timestamp.
RecordStamps(date, off) ==
    IF off = "naive"
    THEN { MorningStamp(date, off), Stamp(date - 1, 23, off), NoStamp, Garbage }
    ELSE { MorningStamp(date, off), Stamp(date, 3, off) }

\* The documents the collection may hold: of a known resort dated today,
\* with any of the cells and timestamps, or with text that is no number as
\* its summit amount; of the same resort dated on the oldest day of the
\* window, with any of the timestamps; of the same resort dated the day
\* before the window; of an unknown resort, dated today.
Records(todayNo, off) ==
    LET both == [snow_24h_summit |-> Num(8000), snow_24h_base |-> Num(5000)]
        oldest == todayNo - (HistoryDays - 1)
    IN  { Record("BridgerBowl", todayNo, lu, p) :
            lu \in RecordStamps(todayNo, off), p \in ChartProfiles }
        \cup { Record("BridgerBowl", oldest, lu, both) :
                 lu \in RecordStamps(oldest, off) }
        \cup { Record("BridgerBowl", oldest - 1,
                      MorningStamp(oldest - 1, off), both),
               Record(UnknownResortId, todayNo,
                      MorningStamp(todayNo, off), both),
               Record("BridgerBowl", todayNo, MorningStamp(todayNo, off),
                      [snow_24h_summit |-> BadStr,
                       snow_24h_base |-> Num(5000)]) }

\* The scraper writes one more document; the latest snapshot is the
\* documents of the newest date.
AddRecord ==
    /\ pc = "feed"
    /\ db = "client"
    /\ Len(coll) < MaxRecords
    /\ \E doc \in Records(TodayNumber, stampKind) :
          /\ coll' = Append(coll, doc)
          /\ store' = LatestSnapshot(coll')
    /\ UNCHANGED <<today, stampKind, db, pc, ret, df, lookup,
                   df_hist, histRet, cdf, chartRet, uiVars>>

\* load_historical_data(_db) with no store handle.
LoadHistNoDb ==
    /\ pc = "done"
    /\ db = "none"
    /\ df_hist' = << >>
    /\ histRet' = "nodb"
    /\ pc' = "hist"
    /\ UNCHANGED <<today, stampKind, db, store, ret, df, lookup, coll,
                   cdf, chartRet, uiVars>>

\* load_historical_data(_db): the queries succeed.
LoadHistorical ==
    /\ pc = "done"
    /\ db = "client"
    /\ LET out == load_historical_data(coll, TodayNumber)
       IN  /\ df_hist' = out.table
           /\ histRet' = out.ret
    /\ pc' = "hist"
    /\ UNCHANGED <<today, stampKind, db, store, ret, df, lookup, coll,
                   cdf, chartRet, uiVars>>

\* load_historical_data(_db): a store query raises.
LoadHistExcept ==
    /\ pc = "done"
    /\ db = "client"
    /\ df_hist' = << >>
    /\ histRet' = "except"
    /\ pc' = "hist"
    /\ UNCHANGED <<today, stampKind, db, store, ret, df, lookup, coll,
                   cdf, chartRet, uiVars>>

\* cdf = prepare_chart_data(df_hist, df)
PrepareChart ==
    /\ pc = "hist"
    /\ LET out == prepare_chart_data(df_hist, df, TodayNumber)
       IN  /\ cdf' = out.table
           /\ chartRet' = out.ret
           /\ df_hist' = IF out.ret = "empty" THEN df_hist
                         ELSE WithTempDisp(df_hist)
    /\ pc' = "chart"
    /\ UNCHANGED <<today, stampKind, db, store, ret, df, lookup, coll,
                   histRet, uiVars>>

NextChart ==
    \/ AddRecord \/ LoadNoDb \/ LoadNormal \/ LoadExcept
    \/ LoadHistNoDb \/ LoadHistorical \/ LoadHistExcept
    \/ PrepareChart

SpecChart == Init /\ [][NextChart]_vars

\* ------------------------------------ renders served by the result cache

\* The scraper writes today's report of one resort: 8" at the summit, 5" at
\* the base, updated 06:00 local time.
WriteReport ==
    /\ pc = "feed"
    /\ db = "client"
    /\ Len(coll) < MaxRecords
    /\ coll' = Append(coll,
                      Record("BridgerBowl", TodayNumber,
                             MorningStamp(TodayNumber, stampKind),
                             [snow_24h_summit |-> Num(8000),
                              snow_24h_base |-> Num(5000)]))
    /\ store' = LatestSnapshot(coll')
    /\ UNCHANGED <<today, stampKind, db, pc, ret, df, lookup,
                   df_hist, histRet, cdf, chartRet, uiVars>>

\* Five minutes pass between two script runs; the local date changes at
\* midnight.
Tick ==
    /\ pc \in {"feed", "chart"}
    /\ clock < 300 * MaxTicks - CacheTtl
    /\ today.d < 28
    /\ clock' = clock + 300
    /\ today' = IF clock < 0 /\ clock' >= 0
                THEN [today EXCEPT !.d = @ + 1] ELSE today
    /\ pc' = "feed"
    /\ UNCHANGED <<stampKind, db, store, ret, df, lookup, chartVars,
                   cache, last_clicked, clicked, runs>>

\* df = load_latest_data(db) under @st.cache_data(ttl=600): a fresh entry is
\* returned as it is, else the function runs and its result is stored.
CachedLoadLatest ==
    /\ pc = "feed"
    /\ IF Fresh(cache.latest, clock)
       THEN /\ df' = cache.latest.table
            /\ ret' = cache.latest.ret
            /\ cache' = cache
       ELSE LET table == IF db = "none" THEN NoDbTable
                         ELSE NormalTable(store, TodayNumber)
                how   == IF db = "none" THEN "nodb" ELSE "normal"
            IN  /\ df' = table
                /\ ret' = how
                /\ cache' = [cache EXCEPT !.latest =
                               [ filled |-> TRUE, at |-> clock,
                                 day |-> TodayNumber, docs |-> store,
                                 ret |-> how, table |-> table ]]
    /\ pc' = "done"
    /\ UNCHANGED <<today, stampKind, db, store, lookup, chartVars,
                   clock, last_clicked, clicked, runs>>

\* df_hist = load_historical_data(db, days=5) under the same cache.
CachedLoadHistorical ==
    /\ pc = "done"
    /\ IF Fresh(cache.hist, clock)
       THEN /\ df_hist' = cache.hist.table
            /\ histRet' = cache.hist.ret
            /\ cache' = cache
       ELSE LET out == IF db = "none" THEN [ret |-> "nodb", table |-> << >>]
                       ELSE load_historical_data(coll, TodayNumber)
            IN  /\ df_hist' = out.table
                /\ histRet' = out.ret
                /\ cache' = [cache EXCEPT !.hist =
                               [ filled |-> TRUE, at |-> clock,
                                 day |-> TodayNumber, docs |-> coll,
                                 ret |-> out.ret, table |-> out.table ]]
    /\ pc' = "hist"
    /\ UNCHANGED <<today, stampKind, db, store, ret, df, lookup, coll,
                   cdf, chartRet, clock, last_clicked, clicked, runs>>

NextCache ==
    \/ WriteReport \/ Tick
    \/ CachedLoadLatest \/ CachedLoadHistorical \/ PrepareChart

SpecCache == Init /\ [][NextCache]_vars

\* --------------------------------------------------- the map-click handler

\* The markers a user clicks.
ClickNames == { "Bridger Bowl", "Snowbowl", "Big Sky" }

\* The handler's body for a reported name: a name other than last_clicked is
\* stored and its detail modal opened when the table has the resort; the
\* stored name again clears last_clicked and requests a rerun.
ClickHandlerNoReset(session, resort_name, table) ==
    IF session # NameValue(resort_name)
    THEN [ last_clicked |-> NameValue(resort_name),
           outcome |-> "end",
           modal |-> IF \E j \in 1..Len(table) :
                           table[j].display_name = resort_name
                     THEN resort_name ELSE "" ]
    ELSE [ last_clicked |-> session, outcome |-> "rerun", modal |-> "" ]
ClickHandler(session, resort_name, table) ==
    IF session # NameValue(resort_name)
    THEN [ last_clicked |-> NameValue(resort_name),
           outcome |-> "end",
           modal |-> IF \E j \in 1..Len(table) :
                           table[j].display_name = resort_name
                     THEN resort_name ELSE "" ]
    ELSE [ last_clicked |-> NoneValue, outcome |-> "rerun", modal |-> "" ]

\* The user clicks a marker: the map reports its tooltip from now on.
Click ==
    /\ \E n \in ClickNames : clicked' = n
    /\ UNCHANGED <<today, stampKind, db, store, pc, ret, df, lookup,
                   chartVars, clock, cache, last_clicked, runs>>

\* One script run reaches the handler, with the table of this run.
RunScript ==
    /\ pc = "done"
    /\ Len(runs) < MaxRuns
    /\ IF clicked = ""
       THEN /\ last_clicked' = last_clicked
            /\ runs' = Append(runs, [ clicked |-> "", outcome |-> "idle",
                                      modal |-> "",
                                      last_clicked |-> last_clicked ])
       ELSE LET out == ClickHandler(last_clicked, clicked, df)
            IN  /\ last_clicked' = out.last_clicked
                /\ runs' = Append(runs, [ clicked |-> clicked,
                                          outcome |-> out.outcome,
                                          modal |-> out.modal,
                                          last_clicked |-> out.last_clicked ])
    /\ UNCHANGED <<today, stampKind, db, store, pc, ret, df, lookup,
                   chartVars, clock, cache, clicked>>

NextClick == LoadNoDb \/ LoadNormal \/ LoadExcept \/ Click \/ RunScript

SpecClick == Init /\ [][NextClick]_vars

\* ------------------------------------------------------------- claims

Done == pc = "done"

\* The document a row was merged from (all cells missing when none).
RawOf(row) == IF row.src = 0 THEN NoDoc ELSE store[row.src]

\* The rows of the returned table that were merged from a document.
ReportRows == { j \in 1..Len(df) : df[j].src # 0 }

\* C1: the returned table holds exactly one row per entry of RESORTS_DATA,
\* whatever the store handle and the fetched documents are.
C1_OneRowPerResort ==
    Done =>
        /\ Len(df) = Len(RESORTS_DATA)
        /\ \A k \in 1..Len(RESORTS_DATA) :
              Cardinality({ j \in 1..Len(df) :
                              df[j].display_name = RESORTS_DATA[k] }) = 1

\* C2: on every return path a row is flagged powder exactly when its display
\* amount is at least 6", and a row the freshness rule zeroed is never
\* flagged, whatever its raw 24h values.
C2_PowderIffDisplay ==
    Done =>
        \A j \in 1..Len(df) :
            /\ df[j].is_powder <=> df[j].snow_24h_display >= 6000
            /\ ( /\ ret = "normal"
                 /\ \/ df[j].last_updated_dt.null
                    \/ df[j].last_updated_dt.day # TodayNumber )
               => ~df[j].is_powder

\* C2 witness: one row dated today shows exactly 6.0" and is flagged, another
\* whose raw base value is 6.0" is stale and is not flagged.
C2_Witness ==
    /\ Done /\ ret = "normal"
    /\ \E i, j \in ReportRows :
          /\ df[i].snow_24h_display = 6000 /\ df[i].is_powder
          /\ ToNumeric(RawOf(df[j]).snow_24h_base) = 6000
          /\ df[j].snow_24h_display = 0 /\ ~df[j].is_powder

\* The 24h summit, 24h base and overnight values of row j are the coerced
\* raw values of its document.
KeepsNewSnow(j) ==
    /\ df[j].snow_24h_summit = ToNumeric(RawOf(df[j]).snow_24h_summit)
    /\ df[j].snow_24h_base = ToNumeric(RawOf(df[j]).snow_24h_base)
    /\ df[j].snow_overnight = ToNumeric(RawOf(df[j]).snow_overnight)

\* The 24h summit, 24h base and overnight values of row j are all 0.
NewSnowZeroed(j) ==
    /\ df[j].snow_24h_summit = 0
    /\ df[j].snow_24h_base = 0
    /\ df[j].snow_overnight = 0

\* C3 as stated: a row whose last_updated_dt date is not before today (today
\* or later) keeps its reported 24h and overnight values.
C3_KeptUnlessBeforeToday ==
    (Done /\ ret = "normal") =>
        \A j \in ReportRows :
            ( /\ ~df[j].last_updated_dt.null
              /\ df[j].last_updated_dt.day >= TodayNumber )
            => KeepsNewSnow(j)

\* C3 amended: the 24h and overnight values are kept exactly when the
\* calendar date of last_updated_dt equals today's; a null, an earlier and a
\* later date all zero them.
C3_ZeroedUnlessToday ==
    (Done /\ ret = "normal") =>
        \A j \in 1..Len(df) :
            IF /\ ~df[j].last_updated_dt.null
               /\ df[j].last_updated_dt.day = TodayNumber
            THEN KeepsNewSnow(j)
            ELSE NewSnowZeroed(j)

\* C3 witness: a row dated tomorrow whose document reports snow is zeroed,
\* beside a row dated today that keeps its snow.
C3_Witness ==
    /\ Done /\ ret = "normal"
    /\ \E i, j \in ReportRows :
          /\ df[i].last_updated_dt.day = TodayNumber + 1
          /\ ToNumeric(RawOf(df[i]).snow_24h_summit) > 0
          /\ NewSnowZeroed(i)
          /\ df[j].last_updated_dt.day = TodayNumber
          /\ df[j].snow_24h_summit > 0

\* C4: a report whose last_updated falls on today's local date, at any hour,
\* keeps its 24h summit, 24h base and overnight values; one whose
\* last_updated falls on yesterday's local date has all three set to 0.
C4_LocalCalendarDay ==
    (Done /\ ret = "normal") =>
        \A j \in ReportRows :
            ~df[j].last_updated_dt.null =>
                /\ LocalDay(df[j].last_updated_dt) = TodayNumber
                      => KeepsNewSnow(j)
                /\ LocalDay(df[j].last_updated_dt) = TodayNumber - 1
                      => NewSnowZeroed(j)

\* C5: a row whose last_updated_dt is null or earlier than the season start
\* has all five snow-depth fields equal to 0.
C5_SeasonStaleZeroed ==
    (Done /\ ret = "normal") =>
        \A j \in 1..Len(df) :
            ( \/ df[j].last_updated_dt.null
              \/ df[j].last_updated_dt.day < SeasonStart )
            => /\ NewSnowZeroed(j)
               /\ df[j].base_depth = 0
               /\ df[j].summit_depth = 0

\* C6: for a row whose report is from the current season but not from today,
\* base_depth and summit_depth are the coerced raw values, while the 24h and
\* overnight values are zeroed.
C6_DepthsSurviveFreshness ==
    (Done /\ ret = "normal") =>
        \A j \in ReportRows :
            ( /\ ~df[j].last_updated_dt.null
              /\ df[j].last_updated_dt.day >= SeasonStart
              /\ df[j].last_updated_dt.day # TodayNumber )
            => /\ df[j].base_depth = ToNumeric(RawOf(df[j]).base_depth)
               /\ df[j].summit_depth = ToNumeric(RawOf(df[j]).summit_depth)
               /\ NewSnowZeroed(j)

\* C6 witness: a row reported yesterday, this season, with snow in its
\* document: the new-snow fields are 0, the two depths are not.
C6_Witness ==
    /\ Done /\ ret = "normal"
    /\ \E j \in ReportRows :
          /\ df[j].last_updated_dt.day = TodayNumber - 1
          /\ df[j].last_updated_dt.day >= SeasonStart
          /\ ToNumeric(RawOf(df[j]).snow_24h_summit) > 0
          /\ NewSnowZeroed(j)
          /\ df[j].base_depth = 40000
          /\ df[j].summit_depth = 60000

\* C7: in a returned table that has the 24h columns (the store-unavailable
\* and the normal return), every row's display amount is the larger of its
\* 24h summit and 24h base values as they stand after the zeroing; a marker
\* of create_map that shows an amount shows this one, the powder flag is
\* taken from it, and of two rows with the same report flag and report date
\* the one with the larger display amount comes first.
C7_DisplayIsMax ==
    (Done /\ ret \in {"nodb", "normal"}) =>
        \A j \in 1..Len(df) :
            /\ df[j].snow_24h_display >= df[j].snow_24h_summit
            /\ df[j].snow_24h_display >= df[j].snow_24h_base
            /\ df[j].snow_24h_display \in
                  { df[j].snow_24h_summit, df[j].snow_24h_base }
            /\ ~MarkerLabel(df[j]).na
                  => MarkerLabel(df[j]).amount = df[j].snow_24h_display
            /\ df[j].is_powder <=> df[j].snow_24h_display >= 6000
            /\ \A i \in 1..Len(df) :
                  ( /\ df[i].has_report = df[j].has_report
                    /\ df[i].last_updated_dt = df[j].last_updated_dt
                    /\ Max2(df[i].snow_24h_summit, df[i].snow_24h_base)
                          > Max2(df[j].snow_24h_summit, df[j].snow_24h_base) )
                  => i < j

\* C7 witness: a fresh row whose base value (6.0") exceeds its summit value
\* (5.0") shows 6.0", on the marker too.
C7_Witness ==
    /\ Done /\ ret = "normal"
    /\ \E j \in ReportRows :
          /\ df[j].snow_24h_summit = 5000
          /\ df[j].snow_24h_base = 6000
          /\ df[j].snow_24h_display = 6000
          /\ MarkerLabel(df[j]) = [na |-> FALSE, amount |-> 6000]

\* C8 as stated: has_report is true exactly for the rows that were merged
\* from a document of the latest-date fetch.
C8_HasReportIffMatched ==
    Done => \A j \in 1..Len(df) : df[j].has_report <=> df[j].src # 0

\* C8 amended: has_report is true exactly for the rows merged from a
\* document that carries a last_updated value other than the text "N/A".
C8_HasReportIffLastUpdatedText ==
    Done =>
        \A j \in 1..Len(df) :
            df[j].has_report <=>
                /\ df[j].src # 0
                /\ RawOf(df[j]).last_updated.k \notin {"absent", "na"}

\* C8 witness: a row merged from a document without last_updated has
\* has_report false, beside a row of a document with a timestamp that has
\* it true.
C8_Witness ==
    /\ Done /\ ret = "normal"
    /\ \E i, j \in ReportRows :
          /\ RawOf(df[i]).last_updated = NoStamp /\ ~df[i].has_report
          /\ RawOf(df[j]).last_updated.k = "stamp" /\ df[j].has_report

\* C9 as stated: a row whose document has a missing or an unparseable
\* last_updated is not fresh (its new-snow fields are 0) and has has_report
\* false.
C9_BadStampNoReport ==
    (Done /\ ret = "normal") =>
        \A j \in ReportRows :
            RawOf(df[j]).last_updated.k \in {"absent", "garbage"}
            => /\ df[j].last_updated_dt.null
               /\ NewSnowZeroed(j)
               /\ ~df[j].has_report

\* C9 amended: such a row is not fresh in both cases (null last_updated_dt,
\* new-snow fields 0); has_report is false when last_updated is missing and
\* true when it is present but unparseable.
C9_BadStampNotFresh ==
    (Done /\ ret = "normal") =>
        \A j \in ReportRows :
            RawOf(df[j]).last_updated.k \in {"absent", "garbage"}
            => /\ df[j].last_updated_dt.null
               /\ NewSnowZeroed(j)
               /\ df[j].snow_24h_display = 0
               /\ df[j].has_report
                     <=> RawOf(df[j]).last_updated.k = "garbage"

\* C9 witness: a document with snow and an unparseable last_updated gives a
\* zeroed row with has_report true.
C9_Witness ==
    /\ Done /\ ret = "normal"
    /\ \E j \in ReportRows :
          /\ RawOf(df[j]).last_updated = Garbage
          /\ ToNumeric(RawOf(df[j]).snow_24h_summit) > 0
          /\ NewSnowZeroed(j)
          /\ df[j].has_report

\* C10: on the normal path the table is ordered by has_report descending,
\* then report date descending, then display amount descending.
C10_Ordered ==
    (Done /\ ret = "normal") =>
        \A i, j \in 1..Len(df) :
            i < j =>
                /\ df[i].has_report \/ ~df[j].has_report
                /\ ( /\ df[i].has_report = df[j].has_report
                     /\ ~df[i].last_updated_dt.null
                     /\ ~df[j].last_updated_dt.null )
                   => df[i].last_updated_dt.day >= df[j].last_updated_dt.day
                /\ ( /\ df[i].has_report = df[j].has_report
                     /\ df[i].last_updated_dt.null = df[j].last_updated_dt.null
                     /\ df[i].last_updated_dt.day = df[j].last_updated_dt.day )
                   => df[i].snow_24h_display >= df[j].snow_24h_display

\* C10 witness: a row dated tomorrow showing 0" precedes a row dated today
\* showing snow, after which come rows without a report; the two reports
\* arrived in the other order.
C10_Witness ==
    /\ Done /\ ret = "normal"
    /\ df[1].has_report /\ df[2].has_report /\ ~df[3].has_report
    /\ df[1].last_updated_dt.day = TodayNumber + 1
    /\ df[1].snow_24h_display = 0
    /\ df[2].last_updated_dt.day = TodayNumber
    /\ df[2].snow_24h_display > 0
    /\ df[1].src > df[2].src

\* The display names in ascending (code point) order, and a name's place in
\* that order and in RESORTS_DATA.
AscendingNames ==
    << "Bear Paw", "Big Mountain", "Big Sky", "Blacktail", "Bridger Bowl",
       "Discovery", "Great Divide", "Lookout Pass", "Lost Trail", "Maverick",
       "Red Lodge Mountain", "Schweitzer", "Showdown", "Silver Mountain",
       "Snowbowl", "Teton Pass", "Turner Mountain" >>
NameRank(name) == CHOOSE k \in 1..Len(AscendingNames) : AscendingNames[k] = name
MasterRank(name) == CHOOSE k \in 1..Len(RESORTS_DATA) : RESORTS_DATA[k] = name

\* Two rows the three sort keys do not tell apart.
SameSortKeys(a, b) ==
    /\ a.has_report = b.has_report
    /\ a.last_updated_dt.null = b.last_updated_dt.null
    /\ a.last_updated_dt.day = b.last_updated_dt.day
    /\ a.snow_24h_display = b.snow_24h_display

MappedNames ==
    { <<"LookoutPass", "Lookout Pass">>, <<"BigMountain", "Big Mountain">>,
      <<"LostTrail", "Lost Trail">>, <<"TetonPass", "Teton Pass">>,
      <<"Blacktail", "Blacktail">>, <<"Snowbowl", "Snowbowl">>,
      <<"Discovery", "Discovery">>, <<"Showdown", "Showdown">>,
      <<"BridgerBowl", "Bridger Bowl">>, <<"BigSky", "Big Sky">>,
      <<"RedLodge", "Red Lodge Mountain">>,
      <<"RedLodgeMountain", "Red Lodge Mountain">>,
      <<"GreatDivide", "Great Divide">>, <<"BearPaw", "Bear Paw">>,
      <<"SilverMountain", "Silver Mountain">>,
      <<"Schweitzer", "Schweitzer">>,
      <<"TurnerMountain", "Turner Mountain">> }
MappedIds == { m[1] : m \in MappedNames }

\* C12: get_display_name returns a value for every identifier: the mapped
\* display name (a key of RESORTS_DATA) for an identifier of the lookup
\* table, the identifier itself, unchanged, for any other; two calls with
\* the same identifier return the same value.
C12_LookupTotal ==
    \A i \in 1..Len(lookup) :
        LET call == lookup[i]
        IN  /\ call.resort_name \in MappedIds
                => /\ <<call.resort_name, call.result>> \in MappedNames
                   /\ \E k \in 1..Len(RESORTS_DATA) : RESORTS_DATA[k] = call.result
            /\ call.resort_name \notin MappedIds
                => call.result = call.resort_name
            /\ \A j \in 1..Len(lookup) :
                  lookup[j].resort_name = call.resort_name
                      => lookup[j].result = call.result

\* C12 witness: a mapped identifier and an unmapped one were both looked up.
C12_Witness ==
    /\ Len(lookup) = 2
    /\ lookup[1] = [resort_name |-> "RedLodge", result |-> "Red Lodge Mountain"]
    /\ lookup[2] = [resort_name |-> UnknownResortId, result |-> UnknownResortId]

\* The keys of RESORTS_DATA.
ResortNames == { RESORTS_DATA[k] : k \in 1..Len(RESORTS_DATA) }

\* C13: the display names of the returned table are exactly the keys of
\* RESORTS_DATA: no entry is dropped, a row merged from a document carries
\* the name that document resolves to, and a document whose resolved name is
\* no key of RESORTS_DATA has no row.
C13_NamesAreResortsData ==
    Done =>
        /\ { df[j].display_name : j \in 1..Len(df) } = ResortNames
        /\ \A j \in ReportRows :
              get_display_name(store[df[j].src].resort) = df[j].display_name
        /\ \A i \in 1..Len(store) :
              get_display_name(store[i].resort) \notin ResortNames
                  => \A j \in 1..Len(df) : df[j].src # i

\* C13 witness: the fetch returned a document of an unknown resort and one
\* of a known resort; the table has one row per RESORTS_DATA entry, one of
\* them merged from the known resort's document.
C13_Witness ==
    /\ Done /\ ret = "normal"
    /\ Len(store) = 2
    /\ store[1].resort = UnknownResortId
    /\ store[2].resort = "BridgerBowl"
    /\ Len(df) = Len(RESORTS_DATA)
    /\ \E j \in 1..Len(df) : df[j].src = 2 /\ df[j].display_name = "Bridger Bowl"

\* ---------------------------------------------------- claims on the chart

Charted == pc = "chart"

\* The display names of the current table.
CurrentNames == { df[j].display_name : j \in 1..Len(df) }

\* The rows of the chart table that belong to a resort.
PointsOf(name) == { k \in 1..Len(cdf) : cdf[k].display_name = name }

\* The documents of the collection that resolve to a resort and carry a date.
RecordsOf(name, d) ==
    { i \in 1..Len(coll) :
        get_display_name(coll[i].resort) = name /\ coll[i].date = d }

\* The days of the trailing window that ends today.
WindowDays == (TodayNumber - 4)..TodayNumber

\* The calendar day in America/Denver a raw last_updated falls on (0: it is
\* no timestamp).
StampDay(lu) ==
    IF lu.k # "stamp" THEN 0
    ELSE IF lu.off = "utc" /\ lu.hour < 7 THEN lu.day - 1
    ELSE lu.day

\* A raw 24h amount, 0 when absent or no number.
Amount(raw) == IF raw.k \in {"num", "numstr"} THEN raw.v ELSE 0

\* The resort's points are five consecutive rows dated today-4 .. today.
FiveDaySeries(name) ==
    /\ Cardinality(PointsOf(name)) = 5
    /\ \E first \in PointsOf(name) :
          \A i \in 0..4 :
              /\ first + i \in PointsOf(name)
              /\ cdf[first + i].date = TodayNumber - 4 + i

\* C14: whenever the historical table is non-empty, the chart table holds
\* for every resort of the current table exactly 5 points, one per day of
\* the window today-4 .. today, oldest first, and a day no document of the
\* resort is dated on has snow 0.
C14_FivePointsPerResort ==
    (Charted /\ histRet = "normal") =>
        /\ chartRet = "ok"
        /\ \A name \in CurrentNames :
              /\ FiveDaySeries(name)
              /\ \A k \in PointsOf(name) :
                    RecordsOf(name, cdf[k].date) = {} => cdf[k].snow = 0

\* The record prepare_chart_data reads for a point: the first document of
\* the resort dated on the point's day (0: none).
RecordOf(k) ==
    LET recs == RecordsOf(cdf[k].display_name, cdf[k].date)
    IN  IF recs = {} THEN 0 ELSE CHOOSE i \in recs : \A j \in recs : i <= j

\* C15: in a returned chart table a point has a nonzero snow value only if
\* a document of its resort is dated on its day and that document's own
\* last_updated falls on that day; a document timestamped on another day, or
\* with no parsable timestamp, gives 0; a document timestamped on its day
\* gives max(snow_24h_summit, snow_24h_base), an absent amount counting 0.
C15_SelfDatedMax ==
    (Charted /\ chartRet = "ok") =>
        \A k \in 1..Len(cdf) :
            LET i == RecordOf(k)
            IN  /\ cdf[k].snow # 0 => i # 0
                /\ i # 0 =>
                     IF StampDay(coll[i].last_updated) = cdf[k].date
                     THEN cdf[k].snow = Max2(Amount(coll[i].snow_24h_summit),
                                             Amount(coll[i].snow_24h_base))
                     ELSE cdf[k].snow = 0

\* The sum of the snow values of the rows k.. of a chart table that belong
\* to a resort.
RECURSIVE SnowOfResort(_, _, _)
SnowOfResort(rows, name, k) ==
    IF k > Len(rows) THEN 0
    ELSE (IF rows[k].display_name = name THEN rows[k].snow ELSE 0)
         + SnowOfResort(rows, name, k + 1)

\* C16: in a returned chart table every point of a resort carries the same
\* total_snow, the sum of the snow values of the resort's 5 points.
C16_TotalIsSum ==
    (Charted /\ chartRet = "ok") =>
        \A name \in CurrentNames :
            LET total == SnowOfResort(cdf, name, 1)
            IN  /\ Cardinality(PointsOf(name)) = 5
                /\ \A k \in PointsOf(name) : cdf[k].total_snow = total

\* C16 witness: a resort with snow on the oldest day and on the newest day of
\* the window, nothing between, carries their sum on each of its 5 points,
\* and another resort carries 0.
C16_Witness ==
    /\ Charted /\ chartRet = "ok"
    /\ \E first \in 1..Len(cdf) :
          /\ cdf[first].display_name = "Bridger Bowl"
          /\ cdf[first].snow = 8000
          /\ cdf[first + 1].snow = 0
          /\ cdf[first + 4].snow = 2000
          /\ \A i \in 0..4 : cdf[first + i].total_snow = 10000
    /\ \E k \in 1..Len(cdf) :
          cdf[k].display_name = "Snowbowl" /\ cdf[k].total_snow = 0

\* C17: a resort of the current table none of whose documents is dated in
\* the window still has its 5 points in the chart table, all 0, also when
\* the historical table is empty or the store is unavailable.
C17_ZeroSeriesNotAbsent ==
    Charted =>
        \A name \in CurrentNames :
            (\A d \in WindowDays : RecordsOf(name, d) = {}) =>
                /\ FiveDaySeries(name)
                /\ \A k \in PointsOf(name) : cdf[k].snow = 0

\* -------------------------------------------- claims on the current table

\* The report of the end-to-end example: Bridger Bowl, dated today, updated
\* today 06:00 local time, 8" at the summit and 5" at the base.
ExampleReport ==
    Record("BridgerBowl", TodayNumber, MorningStamp(TodayNumber, stampKind),
           [snow_24h_summit |-> Num(8000), snow_24h_base |-> Num(5000)])

\* C18: when the latest snapshot is the single example report, the table
\* has the row Bridger Bowl with display amount 8, is_powder and has_report
\* true, and every other resort has a row, each with display amount 0,
\* is_powder false and has_report false.
C18_EndToEnd ==
    (pc # "feed" /\ ret = "normal" /\ store = << ExampleReport >>) =>
        /\ \A name \in ResortNames :
              \E j \in 1..Len(df) : df[j].display_name = name
        /\ \A j \in 1..Len(df) :
              IF df[j].display_name = "Bridger Bowl"
              THEN /\ df[j].snow_24h_display = 8000
                   /\ df[j].is_powder
                   /\ df[j].has_report
              ELSE /\ df[j].snow_24h_display = 0
                   /\ ~df[j].is_powder
                   /\ ~df[j].has_report

\* C18 witness: the example report, written without a zone, was the only
\* document of the latest date and the table was built from it.
C18_Witness ==
    /\ pc = "done" /\ ret = "normal"
    /\ stampKind = "naive"
    /\ store = << ExampleReport >>
    /\ \E j \in 1..Len(df) :
          df[j].src = 1 /\ df[j].display_name = "Bridger Bowl"

\* A row of the table all of whose values are the defaults.
AllDefault(row) ==
    /\ \A col \in NumCols : row[col] = 0
    /\ row.snow_24h_display = 0
    /\ ~row.is_powder
    /\ ~row.has_report

\* C19: with no store handle load_latest_data returns the all-default
\* table, one row per known resort with every numeric metric and the display
\* amount 0, is_powder and has_report false and a null last_updated_dt, and
\* load_historical_data returns an empty table.
C19_UnavailableStore ==
    (db = "none" /\ pc # "feed") =>
        /\ ret = "nodb"
        /\ \A name \in ResortNames :
              \E j \in 1..Len(df) : df[j].display_name = name
        /\ \A j \in 1..Len(df) :
              /\ df[j].display_name \in ResortNames
              /\ AllDefault(df[j])
              /\ df[j].last_updated_dt.null
        /\ pc \in {"hist", "chart"} => (histRet = "nodb" /\ df_hist = << >>)

\* C19 witness: both loaders returned without a store handle.
C19_Witness ==
    /\ db = "none" /\ pc = "hist"
    /\ Len(df) = Len(RESORTS_DATA)
    /\ df_hist = << >>

\* C20: on the normal path a resort of RESORTS_DATA that no fetched document
\* resolves to has a row, with all eight numeric metrics and the display
\* amount 0, is_powder false and has_report false, whatever the other
\* resorts' documents are.
C20_UnmatchedAllZero ==
    (Done /\ ret = "normal") =>
        \A name \in ResortNames :
            (\A i \in 1..Len(store) : get_display_name(store[i].resort) # name)
                => /\ \E j \in 1..Len(df) : df[j].display_name = name
                   /\ \A j \in 1..Len(df) :
                         df[j].display_name = name => AllDefault(df[j])

\* C20 witness: two resorts have a report with snow today, and a third
\* resort, with none, has an all-default row below them.
C20_Witness ==
    /\ Done /\ ret = "normal"
    /\ Len(store) = 2
    /\ df[1].has_report /\ df[1].snow_24h_display > 0
    /\ df[2].has_report /\ df[2].snow_24h_display > 0
    /\ df[1].display_name # df[2].display_name
    /\ df[3].src = 0 /\ AllDefault(df[3])

\* ------------------------------------------------ claims on robustness

\* The fetched documents with one field of document i taken away.
WithoutField(i, col) == [store EXCEPT ![i][col] = Absent]
WithoutLastUpdated(i) == [store EXCEPT ![i].last_updated = NoStamp]

\* The rows of a table that were not merged from document i.
OtherRows(table, i) == { table[j] : j \in { k \in 1..Len(table) : table[k].src # i } }

\* The row values the claim compares, all but the last_updated text itself
\* and the report flag.
SameValuesButFlag(a, b) ==
    /\ a.display_name = b.display_name
    /\ \A col \in NumCols : a[col] = b[col]
    /\ a.last_updated_dt = b.last_updated_dt
    /\ a.snow_24h_display = b.snow_24h_display
    /\ a.is_powder = b.is_powder

\* A numeric field holding text that is no number gives the table the same
\* field absent gives.
BadNumberAsAbsent ==
    \A i \in 1..Len(store) : \A col \in NumCols :
        store[i][col] = BadStr
            => df = NormalTable(WithoutField(i, col), TodayNumber)

\* C21 (as claimed): the table build completes; a numeric field holding
\* text that is no number is output as 0 and the table is the one the same
\* field absent gives; a last_updated that is no timestamp gives a null
\* last_updated_dt, and every other field of its row, and every other row,
\* is as with last_updated absent.
C21_MalformedAsAbsent ==
    (Done /\ ret = "normal") =>
        /\ BadNumberAsAbsent
        /\ \A j \in ReportRows :
              LET i == df[j].src
                  absent == FinalRow(df[j].display_name, i,
                                     WithoutLastUpdated(i)[i], TodayNumber)
              IN  store[i].last_updated = Garbage
                      => /\ df[j].last_updated_dt.null
                         /\ SameValuesButFlag(df[j], absent)
                         /\ df[j].has_report = absent.has_report

\* C21 (amended): as claimed for a numeric field; a last_updated that is no
\* timestamp gives a null last_updated_dt and the numeric fields, display
\* amount and powder flag that an absent last_updated gives, but has_report
\* true where the absent one gives false; the other rows have the values they
\* have with last_updated absent.
C21_MalformedAsAbsentButFlag ==
    (Done /\ ret = "normal") =>
        /\ BadNumberAsAbsent
        /\ \A j \in ReportRows :
              LET i == df[j].src
                  absent == FinalRow(df[j].display_name, i,
                                     WithoutLastUpdated(i)[i], TodayNumber)
              IN  store[i].last_updated = Garbage
                      => /\ df[j].last_updated_dt.null
                         /\ SameValuesButFlag(df[j], absent)
                         /\ df[j].has_report /\ ~absent.has_report
                         /\ OtherRows(df, i) =
                              OtherRows(NormalTable(WithoutLastUpdated(i),
                                                    TodayNumber), i)

\* C21 witness: one document holds text that is no number as its 24h summit
\* amount, another a last_updated that is no timestamp; the table was built,
\* and the first one's row shows its base amount.
C21_Witness ==
    /\ Done /\ ret = "normal"
    /\ \E i, k \in 1..Len(store) :
          /\ store[i].snow_24h_summit = BadStr
          /\ store[k].last_updated = Garbage
          /\ \E j \in ReportRows :
                /\ df[j].src = i
                /\ df[j].snow_24h_summit = 0
                /\ df[j].snow_24h_display = 5000
          /\ \E j \in ReportRows : df[j].src = k /\ df[j].last_updated_dt.null

\* C22: when a store query raises, load_latest_data returns the table it
\* returns for an unavailable store, with the same columns and default
\* values, and create_map draws it without raising.
C22_ExceptIsDefaultTable ==
    (Done /\ ret = "except") =>
        /\ df = NoDbTable
        /\ ~CreateMapRaises(df)

\* The calendar day in America/Denver of the instant the last_updated of a
\* row's document denotes.
InstantDay(j) == StampDay(RawOf(df[j]).last_updated)

\* C23: every non-null last_updated_dt of the table is expressed in
\* America/Denver, and the freshness rule goes by the America/Denver day of
\* the instant: the new-snow fields are kept when that day is today and
\* zeroed when it is not.
C23_ConvertedToDenver ==
    (Done /\ ret = "normal") =>
        \A j \in ReportRows :
            ~df[j].last_updated_dt.null =>
                /\ df[j].last_updated_dt.tz = "denver"
                /\ df[j].last_updated_dt.day = InstantDay(j)
                /\ IF InstantDay(j) = TodayNumber
                   THEN KeepsNewSnow(j) ELSE NewSnowZeroed(j)

\* C24: a call of prepare_chart_data leaves the historical table and the
\* current table as they were.
C24_InputsUnchanged ==
    [][PrepareChart => (df_hist' = df_hist /\ df' = df)]_vars

\* The row of the historical table that document i became (0: none).
HistRowOf(i) ==
    LET rs == { j \in 1..Len(df_hist) : df_hist[j].src = i }
    IN  IF rs = {} THEN 0 ELSE CHOOSE j \in rs : TRUE

\* C25: in a returned chart table, a point whose document is timestamped on
\* its day and has exactly one of the two 24h amounts as a missing cell, the
\* other being a positive number v, has snow value v, whichever is missing.
C25_AbsentCountsZero ==
    (Charted /\ chartRet = "ok") =>
        \A k \in 1..Len(cdf) :
            LET i == RecordOf(k)
                h == IF i = 0 THEN 0 ELSE HistRowOf(i)
            IN  ( /\ h # 0
                  /\ StampDay(coll[i].last_updated) = cdf[k].date )
                => /\ ( /\ df_hist[h].snow_24h_summit.k = "nan"
                        /\ df_hist[h].snow_24h_base.k = "num"
                        /\ df_hist[h].snow_24h_base.v > 0 )
                      => cdf[k].snow = df_hist[h].snow_24h_base.v
                   /\ ( /\ df_hist[h].snow_24h_base.k = "nan"
                        /\ df_hist[h].snow_24h_summit.k = "num"
                        /\ df_hist[h].snow_24h_summit.v > 0 )
                      => cdf[k].snow = df_hist[h].snow_24h_summit.v

\* C27: on every returned table create_map draws each resort's marker with
\* the "n/a" label, and never as powder, exactly when the row's has_report
\* is false, and with the display amount when has_report is true.
C27_MarkerAgreesWithFlag ==
    Done =>
        /\ ~CreateMapRaises(df)
        /\ \A j \in 1..Len(df) :
              /\ MarkerLabel(df[j]).na = ~df[j].has_report
              /\ ~df[j].has_report => ~MarkerPowder(df[j])
              /\ df[j].has_report
                    => MarkerLabel(df[j]).amount = df[j].snow_24h_display

\* ------------------------------------------- claims on the result cache

\* C26: in every render the five days the chart iterates are the five days
\* the served historical result was queried for, and the served current
\* table is the one the freshness rule gives for the render's own date.
C26_RenderUsesOwnDate ==
    (Charted /\ cache.hist.filled /\ cache.latest.filled) =>
        /\ { cache.hist.day - i : i \in 0..(HistoryDays - 1) } = WindowDays
        /\ db = "client"
              => df = NormalTable(cache.latest.docs, TodayNumber)

\* ---------------------------------------- claims on the map-click handler

\* C28: of two consecutive runs in which the map reports the same resort
\* name, at most one requests a rerun; a run that reports a name and ends
\* without requesting a rerun leaves last_clicked equal to that name and has
\* opened the detail modal of the resort when the table has it.
C28_NoRerunTwice ==
    /\ \A i \in 1..(Len(runs) - 1) :
          ( /\ runs[i].clicked # ""
            /\ runs[i].clicked = runs[i + 1].clicked
            /\ runs[i].outcome = "rerun" )
          => runs[i + 1].outcome = "end"
    /\ \A i \in 1..Len(runs) :
          (runs[i].clicked # "" /\ runs[i].outcome # "rerun")
          => /\ runs[i].last_clicked = NameValue(runs[i].clicked)
             /\ runs[i].clicked \in CurrentNames
                   => runs[i].modal = runs[i].clicked

\* C28 witness: three runs with the same clicked resort: the modal opens,
\* the next run requests a rerun, the run after it opens the modal again.
C28_Witness ==
    /\ Len(runs) = 3
    /\ \A i \in 1..3 : runs[i].clicked = "Bridger Bowl"
    /\ runs[1].outcome = "end" /\ runs[1].modal = "Bridger Bowl"
    /\ runs[2].outcome = "rerun"
    /\ runs[3].outcome = "end" /\ runs[3].modal = "Bridger Bowl"
    /\ last_clicked = NameValue("Bridger Bowl")

====
